---- MODULE Spec2Model ----
(***************************************************************************)
(* CheXzero, notebooks/zero_shot.ipynb: the prediction ensembler           *)
(* (ensemble_models, cell 3), its on-disk prediction cache, and the         *)
(* evaluation cell (cell 6) that hands the averaged prediction to           *)
(* evaluate and bootstrap.                                                  *)
(*                                                                          *)
(* Strings are sequences of one-character strings, so that sorted(),        *)
(* Path.stem and the f-string that builds the cache file name are computed  *)
(* character by character.  Arrays are records [shape, data] with the data  *)
(* in row-major order; a number is a reduced fraction <<num, den>>.         *)
(***************************************************************************)
EXTENDS Integers, Sequences, FiniteSets, TLC

VARIABLES
    cache,   \* the files under the cache directory: file path -> .npy content
    run,     \* the latest call of ensemble_models (cell 4): arguments and outcome
    prev,    \* the call before it
    y_pred_avg, \* the notebook global y_pred_avg: the average that the latest
             \* call that returned assigned (cell 4), read by cell 6
    ev,      \* the outcome of the latest execution of the evaluation cell (cell 6)
    nruns    \* number of calls of ensemble_models so far

vars == <<cache, run, prev, y_pred_avg, ev, nruns>>

----------------------------------------------------------------------------
(* Bounds *)

\* longest list of checkpoints handed to ensemble_models
MaxModels == 2
\* number of calls of ensemble_models in one behaviour
MaxRuns == 2
\* rows (examples of the data set) of a prediction matrix
NumRows == 1
\* length of cxr_labels: columns of a fresh prediction matrix
NumLabels == 2

----------------------------------------------------------------------------
(* Strings *)

\* Python's None, as a value no character sequence equals
None == <<"None">>

Digits == <<"0", "1", "2", "3", "4", "5", "6", "7", "8", "9">>

Letters ==
    <<"a", "b", "c", "d", "e", "f", "g", "h", "i", "j", "k", "l", "m",
      "n", "o", "p", "q", "r", "s", "t", "u", "v", "w", "x", "y", "z">>

IndexIn(chars, ch) == CHOOSE i \in 1..Len(chars) : chars[i] = ch

\* ord(ch) for the characters of file names: '-', '.', '/', digits, '_',
\* lower-case letters
Ord(ch) ==
    CASE ch = "-" -> 45
      [] ch = "." -> 46
      [] ch = "/" -> 47
      [] ch = "_" -> 95
      [] \E i \in 1..Len(Digits) : Digits[i] = ch -> 47 + IndexIn(Digits, ch)
      [] OTHER -> 96 + IndexIn(Letters, ch)

\* s < t for Python str: lexicographic by code point, a proper prefix is smaller
RECURSIVE StrLess(_, _)
StrLess(s, t) ==
    IF t = <<>> THEN FALSE
    ELSE IF s = <<>> THEN TRUE
    ELSE IF Ord(Head(s)) # Ord(Head(t)) THEN Ord(Head(s)) < Ord(Head(t))
    ELSE StrLess(Tail(s), Tail(t))

\* list.insert at the place that keeps xs ascending, after equal elements
RECURSIVE Insert(_, _)
Insert(x, xs) ==
    IF xs = <<>> THEN <<x>>
    ELSE IF StrLess(x, Head(xs)) THEN <<x>> \o xs
    ELSE <<Head(xs)>> \o Insert(x, Tail(xs))

\* a list left as it was given (no sort)
Unsorted(xs) == xs

\* sorted(model_paths): ascending, stable
RECURSIVE sorted(_)
sorted(xs) ==
    IF xs = <<>> THEN <<>>
    ELSE Insert(xs[Len(xs)], sorted(SubSeq(xs, 1, Len(xs) - 1)))

\* str.rfind(ch), 1-based; 0 when ch does not occur
RECURSIVE RFind(_, _)
RFind(s, ch) ==
    IF s = <<>> THEN 0
    ELSE IF s[Len(s)] = ch THEN Len(s)
    ELSE RFind(SubSeq(s, 1, Len(s) - 1), ch)

\* PurePath.name: the final path component
PathName(path) == SubSeq(path, RFind(path, "/") + 1, Len(path))

\* PurePath.stem: the final component without its last suffix
Stem(path) ==
    LET name == PathName(path)
        i    == RFind(name, ".")
    IN  IF 1 < i /\ i < Len(name) THEN SubSeq(name, 1, i - 1) ELSE name

NpySuffix == <<".", "n", "p", "y">>

\* f"{save_name}_{model_name}.npy", or f"{model_name}.npy" without a run tag
CacheFileName(save_name, model_name) ==
    IF save_name # None
    THEN save_name \o <<"_">> \o model_name \o NpySuffix
    ELSE model_name \o NpySuffix

\* Path(cache_dir) / file name
CachePath(cache_dir, save_name, model_name) ==
    cache_dir \o <<"/">> \o CacheFileName(save_name, model_name)

----------------------------------------------------------------------------
(* Numbers and arrays *)

RECURSIVE Gcd(_, _)
Gcd(a, b) == IF b = 0 THEN a ELSE Gcd(b, a % b)

\* 0.0 / 0: "invalid value encountered in double_scalars"
NaN == <<0, 0>>

\* the fraction n / d in lowest terms; a division by zero is NaN
Frac(n, d) ==
    IF d = 0 THEN NaN
    ELSE LET g == Gcd(n, d) IN IF g = 0 THEN <<0, 1>> ELSE <<n \div g, d \div g>>

FracAdd(x, y) ==
    IF x = NaN \/ y = NaN THEN NaN
    ELSE Frac(x[1] * y[2] + y[1] * x[2], x[2] * y[2])

FracDiv(x, n) == IF x = NaN THEN NaN ELSE Frac(x[1], x[2] * n)

\* number of elements of an array of the given shape
RECURSIVE Size(_)
Size(shape) == IF shape = <<>> THEN 1 ELSE Head(shape) * Size(Tail(shape))

\* the checkpoints on disk: '../checkpoints/...' walked by os.walk
PathA == <<"a", "/", "c", ".", "p", "t">>
PathB == <<"b", "/", "c", ".", "p", "t">>
PathC == <<"b", "_", "c", ".", "p", "t">>
Paths == {PathA, PathB, PathC}

\* the run tags a caller passes as save_name
TagA  == <<"a">>
TagAB == <<"a", "_", "b">>
Tags  == {TagA, TagAB}

\* predictions_dir / "ensembled"
CacheDir == <<"p">>

\* what distinguishes the weights stored in one checkpoint from another's
Weight(path) ==
    CASE path = PathA -> 1
      [] path = PathB -> 2
      [] path = PathC -> 4

\* run_softmax_eval(model, loader, cxr_labels, cxr_pair_template) for the model
\* that make() loaded from `path`: one row per example, one column per label
run_softmax_eval(path) ==
    [shape |-> <<NumRows, NumLabels>>,
     data  |-> [i \in 1..(NumRows * NumLabels) |-> <<Weight(path) + i, 1>>]]

\* a matrix cached by an earlier session whose label list was one shorter
StaleMatrix ==
    [shape |-> <<NumRows, NumLabels - 1>>,
     data  |-> [i \in 1..(NumRows * (NumLabels - 1)) |-> <<0, 1>>]]

\* np.save that writes nothing
SaveNothing(files, cache_path, arr) == files

\* np.save(file=cache_path, arr=y_pred): the file's header and its payload
np_save(files, cache_path, arr) ==
    (cache_path :> [magic |-> "NUMPY", shape |-> arr.shape, payload |-> arr.data])
        @@ files

\* np.load(cache_path)
np_load(files, cache_path) ==
    [shape |-> files[cache_path].shape, data |-> files[cache_path].payload]

\* os.path.exists that never finds the file
NeverExists(files, cache_path) == FALSE

\* os.path.exists(cache_path)
os_path_exists(files, cache_path) == cache_path \in DOMAIN files

\* sum of data[k] over the arrays, in list order
RECURSIVE SumAt(_, _)
SumAt(arrays, k) ==
    IF arrays = <<>> THEN <<0, 1>>
    ELSE FracAdd(SumAt(SubSeq(arrays, 1, Len(arrays) - 1), k),
                 arrays[Len(arrays)].data[k])

\* no array: what a call that raised leaves in place of its result
NoArray == [shape |-> None, data |-> None]

\* the element-wise sum of the arrays divided by n
MeanOver(arrays, n) ==
    IF arrays = <<>>
    THEN [status |-> "ok", value |-> [shape |-> <<>>, data |-> <<Frac(0, n)>>]]
    ELSE IF \E i \in 1..Len(arrays) : arrays[i].shape # arrays[1].shape
    THEN [status |-> "ValueError", value |-> NoArray]
    ELSE [status |-> "ok",
          value  |-> [shape |-> arrays[1].shape,
                      data  |-> [k \in 1..Size(arrays[1].shape) |->
                                    FracDiv(SumAt(arrays, k), n)]]]

\* a mean that divides by one more than the number of arrays
MeanOffByOne(arrays) == MeanOver(arrays, Len(arrays) + 1)

\* np.mean(predictions, axis=0).  An empty list is an array of shape (0,) whose
\* mean along axis 0 is the scalar 0.0 / 0 ("Mean of empty slice"); arrays of
\* different column counts cannot be stacked (ValueError).
np_mean(arrays) == MeanOver(arrays, Len(arrays))

----------------------------------------------------------------------------
(* ensemble_models *)

\* what the loop carries from one checkpoint to the next
LoopStart(files) ==
    [files |-> files, predictions |-> <<>>, log |-> <<>>, status |-> "running"]

Event(op, path, file) == [op |-> op, path |-> path, file |-> file]

\* the part of the loop body after make(): lines 135-152
AfterMake(path, i, st, cache_dir, save_name, fault) ==
    LET model_name == Stem(path)
        cache_path == IF cache_dir # None
                      THEN CachePath(cache_dir, save_name, model_name)
                      ELSE None
    IN  IF cache_dir # None /\ os_path_exists(st.files, cache_path)
        THEN [st EXCEPT
                !.log = Append(@, Event("np.load", path, cache_path)),
                !.predictions = Append(@, np_load(st.files, cache_path))]
        ELSE IF fault = [op |-> "run_softmax_eval", at |-> i]
        THEN [st EXCEPT
                !.log = Append(@, Event("run_softmax_eval", path, None)),
                !.status = "run_softmax_eval raised"]
        ELSE LET y_pred == run_softmax_eval(path)
             IN  IF cache_dir # None
                 THEN [st EXCEPT
                         !.log = @ \o <<Event("run_softmax_eval", path, None),
                                        Event("np.save", path, cache_path)>>,
                         !.files = np_save(@, cache_path, y_pred),
                         !.predictions = Append(@, y_pred)]
                 ELSE [st EXCEPT
                         !.log = Append(@, Event("run_softmax_eval", path, None)),
                         !.predictions = Append(@, y_pred)]

\* a loop body that loads the model only when the prediction is not cached
LoopBodyLazyMake(path, i, st, cache_dir, save_name, fault) ==
    LET hit == cache_dir # None
               /\ os_path_exists(st.files, CachePath(cache_dir, save_name, Stem(path)))
        made == IF hit THEN st
                ELSE [st EXCEPT !.log = Append(@, Event("make", path, None))]
    IN  IF ~hit /\ fault = [op |-> "make", at |-> i]
        THEN [made EXCEPT !.status = "make raised"]
        ELSE AfterMake(path, i, made, cache_dir, save_name, fault)

\* one iteration of `for path in model_paths`: lines 126-152
LoopBody(path, i, st, cache_dir, save_name, fault) ==
    LET made == [st EXCEPT !.log = Append(@, Event("make", path, None))]
    IN  IF fault = [op |-> "make", at |-> i]
        THEN [made EXCEPT !.status = "make raised"]
        ELSE AfterMake(path, i, made, cache_dir, save_name, fault)

\* the for loop from its i-th iteration on; an exception ends it
RECURSIVE Loop(_, _, _, _, _, _)
Loop(paths, i, st, cache_dir, save_name, fault) ==
    IF i > Len(paths) \/ st.status # "running" THEN st
    ELSE Loop(paths, i + 1,
              LoopBody(paths[i], i, st, cache_dir, save_name, fault),
              cache_dir, save_name, fault)

\* line 154-155 after a loop that ran to its end: the mean, then the return
Return(st, mean) ==
    IF mean.status # "ok"
    THEN [status |-> mean.status, predictions |-> <<>>, y_pred_avg |-> NoArray,
          log |-> st.log, files |-> st.files]
    ELSE [status |-> "ok", predictions |-> st.predictions,
          y_pred_avg |-> mean.value, log |-> st.log, files |-> st.files]

\* what the call leaves once the loop has ended, by an exception or not
AfterLoop(st) ==
    IF st.status # "running"
    THEN [status |-> st.status, predictions |-> <<>>, y_pred_avg |-> NoArray,
          log |-> st.log, files |-> st.files]
    ELSE Return(st, np_mean(st.predictions))

\* ensemble_models(model_paths, cxr_filepath, cxr_labels, cxr_pair_template,
\* cache_dir, save_name) called with the cache directory holding `files`.
\* `fault` names the call that raises in this run, if any: make or
\* run_softmax_eval on the checkpoint at a position of the sorted list.
ensemble_models(model_paths, cache_dir, save_name, fault, files) ==
    AfterLoop(Loop(sorted(model_paths), 1, LoopStart(files),
                   cache_dir, save_name, fault))

----------------------------------------------------------------------------
(* The evaluation cell *)

\* the body of evaluate's loop over range(num_classes): column i of the
\* predictions is scored against column i of the truth and named after
\* cxr_labels[i]; the table has one column per iteration
evaluate_columns(num_classes) ==
    IF num_classes > NumLabels
    THEN [status |-> "IndexError", columns |-> 0]
    ELSE [status |-> "ok", columns |-> num_classes]

\* evaluate(y_pred, y_true, cxr_labels), eval.py line 128 on:
\* num_classes = y_pred.shape[-1], then the loop over range(num_classes).
\* A 0-d array has the shape (), and shape[-1] raises IndexError.
evaluate(y_pred) ==
    IF y_pred.shape = <<>>
    THEN [status |-> "IndexError", columns |-> 0]
    ELSE evaluate_columns(y_pred.shape[Len(y_pred.shape)])

NotEvaluated ==
    [status |-> "not run", test_pred |-> NoArray, columns |-> 0,
     bootstrap |-> FALSE]

\* cell 6 given the value of the global y_pred_avg (NoArray: never assigned):
\* test_pred = y_pred_avg, which raises NameError for a name never assigned;
\* then evaluate, then bootstrap when evaluate returned
EvaluationCell(global) ==
    IF global = NoArray
    THEN [status |-> "NameError", test_pred |-> NoArray, columns |-> 0,
          bootstrap |-> FALSE]
    ELSE [status    |-> evaluate(global).status,
          test_pred |-> global,
          columns   |-> evaluate(global).columns,
          bootstrap |-> evaluate(global).status = "ok"]

----------------------------------------------------------------------------
(* State machine *)

NoFault == [op |-> "none", at |-> 0]

NoRun ==
    [n |-> 0, model_paths |-> <<>>, cache_dir |-> None, save_name |-> None,
     fault |-> NoFault, status |-> "none", predictions |-> <<>>,
     y_pred_avg |-> NoArray, log |-> <<>>]

\* the cache directory before the first call: absent or empty, or holding
\* a matrix of an earlier session under the name of checkpoint c
NoFiles == [f \in {} |-> NoArray]

StaleFile == CachePath(CacheDir, None, Stem(PathA))

InitCaches == {NoFiles, np_save(NoFiles, StaleFile, StaleMatrix)}

\* the lists of distinct checkpoint paths os.walk can collect, in any order
ModelPathLists ==
    UNION {{s \in [1..n -> Paths] : \A i, j \in 1..n : i # j => s[i] # s[j]}
             : n \in 0..MaxModels}

Init ==
    /\ cache \in InitCaches
    /\ run = NoRun
    /\ prev = NoRun
    /\ y_pred_avg = NoArray
    /\ ev = NotEvaluated
    /\ nruns = 0

\* cell 4: one call of ensemble_models.  The assignment
\* `predictions, y_pred_avg = ensemble_models(...)` happens only when the call
\* returns; a call that raises leaves the global as it was.
Call(model_paths, cache_dir, save_name, fault) ==
    /\ nruns < MaxRuns
    /\ \E out \in {ensemble_models(model_paths, cache_dir, save_name, fault, cache)} :
        /\ cache' = out.files
        /\ prev' = run
        /\ run' = [n |-> nruns + 1, model_paths |-> model_paths,
                   cache_dir |-> cache_dir, save_name |-> save_name,
                   fault |-> fault, status |-> out.status,
                   predictions |-> out.predictions,
                   y_pred_avg |-> out.y_pred_avg, log |-> out.log]
        /\ y_pred_avg' = IF out.status = "ok" THEN out.y_pred_avg ELSE y_pred_avg
        /\ ev' = ev
        /\ nruns' = nruns + 1

\* the (cache_dir, save_name) pairs of a call; save_name is read only when
\* cache_dir is given (line 136), so it varies only then
CacheArgs ==
    {<<None, None>>} \cup {<<CacheDir, tag>> : tag \in {None} \cup Tags}

\* a call in which neither make nor run_softmax_eval raises
RunEnsemble ==
    \E model_paths \in ModelPathLists, args \in CacheArgs :
        Call(model_paths, args[1], args[2], NoFault)

\* a call as cell 4 makes it (save_name left at its default), with or without
\* a cache directory
RunUntagged ==
    \E model_paths \in ModelPathLists, cache_dir \in {None, CacheDir} :
        Call(model_paths, cache_dir, None, NoFault)

\* a call as cell 4 makes it (cache directory given, save_name left at its
\* default) in which make or run_softmax_eval raises on one checkpoint
RunEnsembleRaising ==
    \E model_paths \in ModelPathLists :
        \E op \in {"make", "run_softmax_eval"}, at \in 1..Len(model_paths) :
            Call(model_paths, CacheDir, None, [op |-> op, at |-> at])

\* cell 6, run on the global y_pred_avg as it stands
EvaluateResults ==
    /\ ev' = EvaluationCell(y_pred_avg)
    /\ UNCHANGED <<cache, run, prev, y_pred_avg, nruns>>

\* the notebook: cell 4, returning or raising, and cell 6, run any number of
\* times in any order
Next == RunEnsemble \/ RunEnsembleRaising \/ EvaluateResults

Spec == Init /\ [][Next]_vars

\* calls of ensemble_models alone
SpecEnsemble == Init /\ [][RunEnsemble]_vars

\* calls of ensemble_models in which make or run_softmax_eval may raise
NextRaising == RunUntagged \/ RunEnsembleRaising

SpecRaising == Init /\ [][NextRaising]_vars

----------------------------------------------------------------------------
(* Vocabulary of the properties *)

\* the events of a log with the given operation, in order
EventsOf(log, op) == SelectSeq(log, LAMBDA e : e.op = op)

\* the paths of a sequence of events
PathsOf(events) == [i \in 1..Len(events) |-> events[i].path]

\* strictly ascending in Python's string order
IsAscending(paths) ==
    \A i, j \in 1..Len(paths) : i < j => StrLess(paths[i], paths[j])

\* all the orders in which the elements of a list can be supplied
Orderings(xs) ==
    {[i \in 1..Len(xs) |-> xs[f[i]]] :
        f \in {g \in [1..Len(xs) -> 1..Len(xs)] :
                 \A i, j \in 1..Len(xs) : i # j => g[i] # g[j]}}

\* two calls given the same checkpoint list, cache directory and run tag
SameInputs(r1, r2) ==
    /\ r1.model_paths = r2.model_paths
    /\ r1.cache_dir = r2.cache_dir
    /\ r1.save_name = r2.save_name

\* the behaviour began with an empty cache directory
StartedEmpty ==
    ~(StaleFile \in DOMAIN cache /\ cache[StaleFile].shape = StaleMatrix.shape)

\* position of a path in a list of distinct paths; 0 when absent
PositionIn(paths, path) ==
    IF \E i \in 1..Len(paths) : paths[i] = path
    THEN CHOOSE i \in 1..Len(paths) : paths[i] = path
    ELSE 0

----------------------------------------------------------------------------
(* C1 *)

\* C1: when ensemble_models is called twice in a row with the same checkpoint
\* list, cache directory and run tag, and the first call returned, the second
\* call never invokes run_softmax_eval, and the matrices it returns are the
\* ones the first call returned.
C1_SecondRunServedFromCache ==
    (prev.status = "ok" /\ run.cache_dir # None /\ SameInputs(prev, run))
        => /\ EventsOf(run.log, "run_softmax_eval") = <<>>
           /\ run.status = "ok"
           /\ run.predictions = prev.predictions

C1_Witness ==
    /\ prev.status = "ok" /\ run.status = "ok"
    /\ run.cache_dir = CacheDir
    /\ SameInputs(prev, run)
    /\ Len(run.model_paths) = MaxModels
    /\ Len(EventsOf(prev.log, "run_softmax_eval")) >= 1
    /\ Len(EventsOf(run.log, "np.load")) = MaxModels

----------------------------------------------------------------------------
(* C2 *)

\* C2: a call of ensemble_models with an empty checkpoint list ends in an
\* error; it never returns, and so never returns a NaN average.
C2_EmptyListIsAnError ==
    (run.n > 0 /\ run.model_paths = <<>>) => run.status # "ok"

----------------------------------------------------------------------------
(* C3 *)

\* number of columns of an array; a 0-d array has none
ColumnsOf(arr) == IF arr.shape = <<>> THEN 0 ELSE arr.shape[Len(arr.shape)]

\* cell 6 ran and handed evaluate a prediction
EvaluateCalled == ev.status \notin {"not run", "NameError"}

\* C3: whenever the evaluation cell hands evaluate a prediction whose column
\* count differs from len(cxr_labels), the 0-d average of an empty ensemble
\* included, evaluate raises a dimension-mismatch error, no AUC table is
\* produced and bootstrap is not reached.
C3_EvaluateRejectsMismatch ==
    (EvaluateCalled /\ ColumnsOf(ev.test_pred) # NumLabels)
        => /\ ev.status = "DimensionMismatch"
           /\ ev.columns = 0
           /\ ~ev.bootstrap

----------------------------------------------------------------------------
(* C4 *)

\* C4: whatever the cache directory holds when ensemble_models is called, the
\* call's outcome and averaged matrix are those of a call given any other
\* ordering of the same checkpoint list (same cache directory and run tag).
C4_OrderIndependent ==
    [][run'.n # run.n =>
        \A q \in Orderings(run'.model_paths) :
            \E other \in {ensemble_models(q, run'.cache_dir, run'.save_name,
                                          run'.fault, cache)} :
                /\ other.status = run'.status
                /\ other.y_pred_avg = run'.y_pred_avg]_vars

C4_Witness ==
    /\ run.status = "ok"
    /\ run.cache_dir = CacheDir /\ run.save_name = None
    /\ run.model_paths = <<PathB, PathA>>
    /\ Len(EventsOf(run.log, "np.save")) = 1
    /\ Len(EventsOf(run.log, "np.load")) = 1

----------------------------------------------------------------------------
(* C5 *)

\* C5: a call with exactly one checkpoint that returns, returns a list of one
\* matrix P and an average with P's shape and P's elements.
C5_SingleCheckpointIsIdentity ==
    (run.status = "ok" /\ Len(run.model_paths) = 1)
        => /\ Len(run.predictions) = 1
           /\ run.y_pred_avg.shape = run.predictions[1].shape
           /\ \A k \in 1..Size(run.predictions[1].shape) :
                 run.y_pred_avg.data[k] = run.predictions[1].data[k]

C5_Witness ==
    /\ run.status = "ok"
    /\ Len(run.model_paths) = 1
    /\ run.predictions = <<run_softmax_eval(run.model_paths[1])>>
    /\ run.y_pred_avg = run_softmax_eval(run.model_paths[1])

----------------------------------------------------------------------------
(* C6 *)

\* C6: in every step, a cache file that exists keeps its content; a file
\* that appears was written by an np.save of the call, for a path that did
\* not exist when the call began and that the call had not written before;
\* and a call without a cache directory leaves the cache as it was and
\* neither loads nor saves.
C6_CacheReadIfPresentWriteIfAbsent ==
    [][/\ \A f \in DOMAIN cache : f \in DOMAIN cache' /\ cache'[f] = cache[f]
       /\ \A f \in DOMAIN cache' \ DOMAIN cache :
             \E i \in 1..Len(run'.log) :
                run'.log[i].op = "np.save" /\ run'.log[i].file = f
       /\ \A i \in 1..Len(run'.log) :
             (run'.n # run.n /\ run'.log[i].op = "np.save")
                => /\ run'.log[i].file \notin DOMAIN cache
                   /\ \A j \in 1..(i - 1) :
                         ~(run'.log[j].op \in {"np.save", "np.load"}
                           /\ run'.log[j].file = run'.log[i].file)
       /\ (run'.n # run.n /\ run'.cache_dir = None)
             => /\ cache' = cache
                /\ EventsOf(run'.log, "np.load") = <<>>
                /\ EventsOf(run'.log, "np.save") = <<>>]_vars

C6_Witness ==
    /\ run.cache_dir = CacheDir
    /\ StaleFile \in DOMAIN cache
    /\ np_load(cache, StaleFile) = StaleMatrix
    /\ \E i \in 1..Len(run.log) :
          run.log[i].op = "np.load" /\ run.log[i].file = StaleFile
    /\ Len(EventsOf(run.log, "np.save")) >= 1
    /\ prev.n > 0 /\ prev.cache_dir = None

----------------------------------------------------------------------------
(* C7 *)

\* C7: starting from an empty cache, the i-th matrix a call returns is the
\* inference output of the i-th checkpoint of its sorted list: no two
\* (checkpoint path, run tag) pairs share a cache file.
C7_OneEntryPerCheckpointAndTag ==
    (StartedEmpty /\ run.status = "ok")
        => /\ Len(run.predictions) = Len(run.model_paths)
           /\ \A i \in 1..Len(run.predictions) :
                 run.predictions[i] = run_softmax_eval(sorted(run.model_paths)[i])

----------------------------------------------------------------------------
(* C8 *)

\* the matrix the log's i-th np.load or run_softmax_eval event produced
ProducedBy(e) ==
    IF e.op = "np.load" THEN np_load(cache, e.file) ELSE run_softmax_eval(e.path)

\* C8: whatever the order supplied, make is called on the checkpoints in
\* ascending order, each checkpoint of the list once; the inference calls and
\* the cache writes are in ascending order too; and the i-th matrix returned
\* is the one loaded or inferred for the i-th checkpoint in ascending order.
C8_ProcessedInSortedOrder ==
    run.n > 0 =>
        LET makes  == PathsOf(EventsOf(run.log, "make"))
            got    == SelectSeq(run.log,
                        LAMBDA e : e.op \in {"np.load", "run_softmax_eval"})
        IN  /\ IsAscending(makes)
            /\ {makes[i] : i \in 1..Len(makes)}
                  = {run.model_paths[i] : i \in 1..Len(run.model_paths)}
            /\ Len(makes) = Len(run.model_paths)
            /\ IsAscending(PathsOf(EventsOf(run.log, "run_softmax_eval")))
            /\ IsAscending(PathsOf(EventsOf(run.log, "np.save")))
            /\ PathsOf(got) = makes
            /\ run.status = "ok" =>
                  /\ Len(run.predictions) = Len(makes)
                  /\ \A i \in 1..Len(makes) :
                        run.predictions[i] = ProducedBy(got[i])

C8_Witness ==
    /\ run.status = "ok"
    /\ run.cache_dir = CacheDir
    /\ run.model_paths = <<PathC, PathA>>
    /\ PathsOf(EventsOf(run.log, "np.save")) = <<PathA, PathC>>
    /\ run.predictions = <<run_softmax_eval(PathA), run_softmax_eval(PathC)>>

----------------------------------------------------------------------------
(* C9 *)

\* C9: when run_softmax_eval raises on the k-th checkpoint of a call with a
\* cache directory, the call returns nothing; every checkpoint before k that
\* was inferred has its cache file, holding its inference output; nothing is
\* saved for checkpoint k or a later one; and a following call with the same
\* inputs invokes run_softmax_eval only on checkpoints k and later.
C9_AbortKeepsEarlierCacheEntries ==
    /\ (run.status = "run_softmax_eval raised" /\ run.cache_dir # None) =>
          LET makes  == PathsOf(EventsOf(run.log, "make"))
              k      == run.fault.at
              last   == run.log[Len(run.log)]
          IN  /\ run.predictions = <<>> /\ run.y_pred_avg = NoArray
              /\ Len(makes) = k
              /\ last.op = "run_softmax_eval" /\ last.path = makes[k]
              /\ \A i \in 1..(Len(run.log) - 1) :
                    run.log[i].op = "run_softmax_eval" =>
                       LET file == CachePath(run.cache_dir, run.save_name,
                                             Stem(run.log[i].path))
                       IN  /\ run.log[i + 1] = Event("np.save", run.log[i].path, file)
                           /\ file \in DOMAIN cache
                           /\ np_load(cache, file) = run_softmax_eval(run.log[i].path)
              /\ \A i \in 1..Len(run.log) :
                    run.log[i].op = "np.save" =>
                       PositionIn(makes, run.log[i].path) \in 1..(k - 1)
              /\ CachePath(run.cache_dir, run.save_name, Stem(makes[k]))
                    \notin DOMAIN cache
    /\ (prev.status = "run_softmax_eval raised" /\ prev.cache_dir # None
        /\ SameInputs(prev, run)) =>
          LET before == PathsOf(EventsOf(prev.log, "make"))
              infers == PathsOf(EventsOf(run.log, "run_softmax_eval"))
          IN  \A i \in 1..Len(infers) :
                 PositionIn(before, infers[i]) \notin 1..(prev.fault.at - 1)

C9_Witness ==
    /\ prev.status = "run_softmax_eval raised"
    /\ prev.cache_dir = CacheDir
    /\ prev.fault.at = MaxModels
    /\ Len(EventsOf(prev.log, "np.save")) = MaxModels - 1
    /\ SameInputs(prev, run)
    /\ run.status = "ok"
    /\ Len(EventsOf(run.log, "np.load")) = MaxModels - 1
    /\ Len(EventsOf(run.log, "run_softmax_eval")) = 1

----------------------------------------------------------------------------
(* C10 *)

\* C10: in every call make is invoked once per checkpoint processed,
\* immediately before that checkpoint's cache lookup, whether the lookup hits
\* or not; a call that runs the whole loop invokes it once for every
\* checkpoint of the list; and a call in which make raises fails, also when
\* the checkpoint's prediction is in the cache.
C10_MakeOncePerCheckpointBeforeLookup ==
    run.n > 0 =>
        LET makes == PathsOf(EventsOf(run.log, "make"))
        IN  /\ \A i \in 1..Len(run.log) :
                  run.log[i].op \in {"np.load", "run_softmax_eval"}
                     => /\ i > 1
                        /\ run.log[i - 1] = Event("make", run.log[i].path, None)
            /\ \A i, j \in 1..Len(makes) : i # j => makes[i] # makes[j]
            /\ run.status \in {"ok", "ValueError"}
                  => {makes[i] : i \in 1..Len(makes)}
                        = {run.model_paths[i] : i \in 1..Len(run.model_paths)}
            /\ run.fault.op = "make"
                  => /\ run.status = "make raised"
                     /\ Len(makes) = run.fault.at
                     /\ run.log[Len(run.log)].op = "make"

C10_Witness ==
    /\ run.status = "make raised"
    /\ run.cache_dir = CacheDir
    /\ CachePath(run.cache_dir, run.save_name,
                 Stem(run.log[Len(run.log)].path)) \in DOMAIN cache
    /\ Len(EventsOf(run.log, "np.load")) >= 1

====
